---- MODULE Spec2Model ----
(***************************************************************************)
(* Turn-taking dialogue controller of the interview agent (src/agent.py):  *)
(* InterviewAgent.on_enter, ask_one_question and on_user_turn_completed,   *)
(* together with the heuristic classifiers _is_affirmative and             *)
(* _needs_example and the silent evaluation call call_llm_for_eval.        *)
(*                                                                         *)
(* Text is a sequence of one-character strings, so that lower(), split()   *)
(* and the substring test `a in t` are computed as Python computes them.   *)
(* Every coroutine is cut at its await points; pc[s] is the await the      *)
(* callback of session s is suspended at ("ready": no callback in flight). *)
(* The session host runs one callback of a session at a time: on_enter     *)
(* once, when the session starts, and on_user_turn_completed once for      *)
(* every utterance, in any stage.  hlog, exc, pre, the three counters and  *)
(* the tally are history variables: they record what the callbacks did and *)
(* decide nothing.                                                         *)
(*                                                                         *)
(* Spec is one session under every metadata; FairSpec adds a fair          *)
(* scheduler and a candidate who keeps talking; SpecTwo runs two sessions  *)
(* side by side; ServerSpec is the evaluation store of src/server.py       *)
(* (save_evaluation, get_evaluations); ClassifierSpec is _needs_example    *)
(* called on its own.                                                      *)
(***************************************************************************)
EXTENDS Integers, Sequences, FiniteSets, TLC

\* ------------------------------------------------------------------ text

\* str.lower() on one character
LowerChar(c) ==
    CASE c = "A" -> "a"
      [] c = "B" -> "b"
      [] c = "C" -> "c"
      [] c = "D" -> "d"
      [] c = "E" -> "e"
      [] c = "F" -> "f"
      [] c = "G" -> "g"
      [] c = "H" -> "h"
      [] c = "I" -> "i"
      [] c = "J" -> "j"
      [] c = "K" -> "k"
      [] c = "L" -> "l"
      [] c = "M" -> "m"
      [] c = "N" -> "n"
      [] c = "O" -> "o"
      [] c = "P" -> "p"
      [] c = "Q" -> "q"
      [] c = "R" -> "r"
      [] c = "S" -> "s"
      [] c = "T" -> "t"
      [] c = "U" -> "u"
      [] c = "V" -> "v"
      [] c = "W" -> "w"
      [] c = "X" -> "x"
      [] c = "Y" -> "y"
      [] c = "Z" -> "z"
      [] OTHER -> c

\* str.lower()
RECURSIVE Lower(_)
Lower(t) == IF t = <<>> THEN <<>> ELSE <<LowerChar(Head(t))>> \o Lower(Tail(t))

\* the characters str.split() treats as separators
Whitespace == {" ", "\t", "\n"}

\* len(t.split()): the number of maximal runs of non-whitespace characters
WordCount(t) ==
    Cardinality({i \in 1..Len(t) :
        /\ t[i] \notin Whitespace
        /\ (i = 1 \/ t[i-1] \in Whitespace)})

\* the Python test `a in t` on strings
Contains(t, a) ==
    \E i \in 1..(Len(t) - Len(a) + 1) :
        \A j \in 1..Len(a) : t[i + j - 1] = a[j]

\* the tuple of affirmative tokens scanned by _is_affirmative
AffirmativeTokens ==
    { <<"y", "e", "s">>,
      <<"y", "e", "a", "h">>,
      <<"y", "u", "p">>,
      <<"s", "u", "r", "e">>,
      <<"o", "k">>,
      <<"o", "k", "a", "y">>,
      <<"i", " ", "a", "g", "r", "e", "e">>,
      <<"g", "o", " ", "a", "h", "e", "a", "d">>,
      <<"f", "i", "n", "e">>,
      <<"y", "e", "s", " ", "p", "l", "e", "a", "s", "e">> }

\* the tuple of hedging phrases scanned by _needs_example
HedgingPhrases ==
    { <<"i", " ", "k", "n", "o", "w">>,
      <<"i", "'", "m", " ", "f", "a", "m", "i", "l", "i", "a", "r">>,
      <<"i", " ", "u", "s", "e", "d", " ", "t", "o">>,
      <<"i", " ", "l", "e", "a", "r", "n", "e", "d">> }

\* _is_affirmative(text)
_is_affirmative(text) ==
    IF text = <<>> THEN FALSE
    ELSE LET t == Lower(text)
         IN  \E a \in AffirmativeTokens : Contains(t, a)

\* short with the bound included
short_or_twelve(t) == WordCount(t) <= 12

\* the local `short` of _needs_example, t being the lower-cased text
short(t) == WordCount(t) < 12

\* the local `braggy` of _needs_example, t being the lower-cased text
braggy(t) == \E p \in HedgingPhrases : Contains(t, p)

\* _needs_example(user_text)
_needs_example(user_text) ==
    IF user_text = <<>> THEN TRUE
    ELSE LET t == Lower(user_text)
         IN  short(t) \/ braggy(t)

\* ------------------------------------------------------------ utterances

\* largest number of filler words appended to a sample phrase
MaxFiller == 12

\* one filler word, with its separating blank
FillerWord == <<" ", "d", "i", "d">>

RECURSIVE Filler(_)
Filler(n) == IF n = 0 THEN <<>> ELSE FillerWord \o Filler(n - 1)

\* what the candidate may say, before the filler words
Phrases ==
    { <<>>,
      <<"y", "e", "s">>,
      <<"n", "o">>,
      <<"O", "K", "A", "Y", " ", "t", "h", "e", "n">>,
      <<"I", " ", "u", "s", "e", "d", " ", "t", "o", " ", "d", "o", " ", "t", "h", "a", "t">>,
      <<"i", "t", " ", "w", "a", "s", " ", "b", "r", "o", "k", "e", "n">> }

\* sample transcripts
SayNo == <<"n", "o">>
SayUsedTo ==
    <<"I", " ", "u", "s", "e", "d", " ", "t", "o", " ", "d", "o", " ", "t", "h", "a", "t">>
SayBroken == <<"i", "t", " ", "w", "a", "s", " ", "b", "r", "o", "k", "e", "n">>

\* numbers of filler words tried: none, and both sides of the 12-word mark
FillerCounts == {0, MaxFiller - 1, MaxFiller}

\* the transcripts delivered to the controller
Utterances == {p \o Filler(n) : p \in Phrases, n \in FillerCounts}

\* the new_message objects handed to on_user_turn_completed: text_content
\* may be missing or None (has_text = FALSE)
Messages ==
    {[has_text |-> TRUE, text_content |-> u] : u \in Utterances}
        \cup {[has_text |-> FALSE, text_content |-> <<>>]}

\* getattr(new_message, "text_content", "") or ""
TextOf(new_message) ==
    IF new_message.has_text THEN new_message.text_content ELSE <<>>


\* --------------------------------------------------------------- values

\* Python's None, where the field otherwise holds a string
None == "None"

\* a local variable that has not been assigned yet
Unbound == "<unbound>"

\* the truth value Python gives an optional string (`if not X`, `if X`)
Truthy(x) == x \notin {None, ""}

\* self.max_questions
max_questions == 6

\* the interview sessions (one InterviewAgent each), named by their room
Sessions == {"interview-1"}

\* the role and job description of the job metadata
Role == "Frontend Engineer"
JobDescription == "Build and test React user interfaces"

\* the skill lists a job's metadata may carry
SkillLists == {<<>>, <<"React", "Testing">>}

\* the values of metadata["backend_host"] (absent, or server.py's BACKEND_HOST)
BackendHosts == {None, "http://localhost:8000"}

\* the values of the environment variable LLM_EVAL_URL
EvalUrls == {None, "http://llm-proxy/eval"}

\* ', '.join(skills)
RECURSIVE Join(_)
Join(skills) ==
    IF skills = <<>> THEN ""
    ELSE IF Len(skills) = 1 THEN skills[1]
    ELSE skills[1] \o ", " \o Join(Tail(skills))

\* the dialogue stages, in the order of the comment on self.stage
Stages == <<"idle", "awaiting_consent", "asking", "finished">>

\* ---------------------------------------------------------- the oracle

\* json.dumps of the demo fallback of call_llm_for_eval
DemoFallback ==
    "{\"scores\": {}, \"rationale\": \"LLM_EVAL_URL not configured (demo fallback)\"}"

\* a response of the shape the docstring of call_llm_for_eval asks for
GoodJson ==
    "{\"scores\": {\"React\": 4, \"Testing\": 3}, \"rationale\": \"short note\"}"

\* a JSON object without the two keys
EmptyObjectJson == "{}"

\* valid JSON that is not an object
ListJson == "[4, 3]"

\* a response that is not JSON
Prose == "Sorry, I cannot evaluate this answer."

\* the response bodies of the evaluation proxy (resp.text())
OracleTexts == {GoodJson, EmptyObjectJson, ListJson, Prose, ""}

\* a key a JSON object does not have
Absent == "<absent>"

\* json.loads(eval_text): ok = FALSE is json.JSONDecodeError
json_loads(text) ==
    CASE text = GoodJson ->
            [ok |-> TRUE, type |-> "dict",
             scores |-> "{React: 4, Testing: 3}", rationale |-> "short note"]
      [] text = DemoFallback ->
            [ok |-> TRUE, type |-> "dict", scores |-> "{}",
             rationale |-> "LLM_EVAL_URL not configured (demo fallback)"]
      [] text = EmptyObjectJson ->
            [ok |-> TRUE, type |-> "dict", scores |-> Absent, rationale |-> Absent]
      [] text = ListJson ->
            [ok |-> TRUE, type |-> "list", scores |-> Absent, rationale |-> Absent]
      [] OTHER ->
            [ok |-> FALSE, type |-> "error", scores |-> Absent, rationale |-> Absent]

\* FallbackJson that drops the raw text
FallbackJsonBlank(text) ==
    [ok |-> TRUE, type |-> "dict", scores |-> "{}", rationale |-> ""]

\* the fallback of the except branch: {"scores": {}, "rationale": eval_text}
FallbackJson(text) ==
    [ok |-> TRUE, type |-> "dict", scores |-> "{}", rationale |-> text]

\* eval_json before the evaluation
NoJson == [ok |-> FALSE, type |-> "none", scores |-> Absent, rationale |-> Absent]

\* dict.get(key, default) on a parsed object
Get(value, default) == IF value = Absent THEN default ELSE value

\* save_payload before it is built
NoPayload ==
    [room |-> None, question_id |-> 0, question_text |-> None,
     answer_text |-> <<>>, scores |-> Absent, rationale |-> Absent]

\* the outcomes of the POST to /save_evaluation
SinkOutcomes == {"ok", "non_2xx", "network_error", "timeout"}

\* ------------------------------------------------------------- state

\* most callbacks that may end in an exception, per session
MaxAborted == 2

VARIABLES
    LLM_EVAL_URL,        \* module global read by call_llm_for_eval
    skills,              \* self.skills
    backend_host,        \* self.backend_host
    question_count,      \* self.question_count
    stage,               \* self.stage
    last_question_text,  \* self.last_question_text
    pc,                  \* the await a callback is suspended at, or "ready"
    user_text,           \* local of on_user_turn_completed (kept after it)
    eval_text,           \* local of on_user_turn_completed
    eval_json,           \* local of on_user_turn_completed
    save_payload,        \* local of on_user_turn_completed
    hlog,                \* what the most recent callback did, in order
    exc,                 \* the exception that ended the most recent callback
    pre,                 \* the fields as the most recent callback found them
    accepted,            \* answers taken as final (not sent to a follow-up)
    closings,            \* closing statements spoken
    aborted,             \* callbacks ended by an exception
    evaluations,         \* evaluator calls made for the current question
    persists,            \* POSTs to /save_evaluation made for the current question
    last_persisted,      \* question_id of the latest POST, 0 before the first
    consent,             \* an affirmative utterance was handled in awaiting_consent
    EVALUATIONS,         \* server.py: the in-memory store
    response,            \* server.py: the latest HTTP response
    saved,               \* the entries save_evaluation was called with, in call order
    utterance,           \* the argument of a call of _needs_example
    needs_example        \* what that call returned

vars == <<LLM_EVAL_URL, skills, backend_host, question_count, stage,
          last_question_text, pc, user_text, eval_text, eval_json,
          save_payload, hlog, exc, pre, accepted, closings, aborted,
          evaluations, persists, last_persisted, consent,
          EVALUATIONS, response, saved, utterance, needs_example>>

\* the state of server.py, which no step of the agent touches
server == <<EVALUATIONS, response, saved>>

\* a call of _needs_example on its own
classifier == <<utterance, needs_example>>

\* the fields of the agent no callback assigns
config == <<LLM_EVAL_URL, skills, backend_host>>

\* the locals of on_user_turn_completed
locals == <<user_text, eval_text, eval_json, save_payload>>

\* the counters kept over the session
counters == <<accepted, closings, aborted>>

\* what has been scored and stored for the current question, and the consent
tally == <<evaluations, persists, last_persisted, consent>>

\* the snapshot on_user_turn_completed starts from
Snapshot(s) ==
    [stage |-> stage[s], question_count |-> question_count[s],
     last_question_text |-> last_question_text[s]]

\* no HTTP response yet
NoResponse == [status |-> 0, body |-> <<>>]

\* server.py as loaded: the store is empty and nothing has been answered
server_loaded ==
    /\ EVALUATIONS = <<>>
    /\ response = NoResponse
    /\ saved = <<>>

\* no call of _needs_example on its own is under way
classifier_idle ==
    /\ utterance = <<>>
    /\ needs_example = Unbound

\* InterviewAgent.__init__ for every session of S, after the metadata
Constructed(S) ==
    /\ question_count = [s \in S |-> 0]
    /\ stage = [s \in S |-> "idle"]
    /\ last_question_text = [s \in S |-> None]
    /\ pc = [s \in S |-> "ready"]
    /\ user_text = [s \in S |-> <<>>]
    /\ eval_text = [s \in S |-> Unbound]
    /\ eval_json = [s \in S |-> NoJson]
    /\ save_payload = [s \in S |-> NoPayload]
    /\ hlog = [s \in S |-> <<>>]
    /\ exc = [s \in S |-> None]
    /\ pre = [s \in S |-> [stage |-> "idle", question_count |-> 0,
                           last_question_text |-> None]]
    /\ accepted = [s \in S |-> 0]
    /\ closings = [s \in S |-> 0]
    /\ aborted = [s \in S |-> 0]
    /\ evaluations = [s \in S |-> 0]
    /\ persists = [s \in S |-> 0]
    /\ last_persisted = [s \in S |-> 0]
    /\ consent = [s \in S |-> FALSE]

\* InterviewAgent.__init__, for every session, and the environment
Init ==
    /\ LLM_EVAL_URL \in EvalUrls
    /\ skills \in [Sessions -> SkillLists]
    /\ backend_host \in [Sessions -> BackendHosts]
    /\ Constructed(Sessions)
    /\ server_loaded
    /\ classifier_idle

\* a callback of session s returns or raises: its frame is gone, with the
\* locals (user_text is kept, as the record of what the callback was given)
Returns(s) ==
    /\ pc' = [pc EXCEPT ![s] = "ready"]
    /\ user_text' = user_text
    /\ eval_text' = [eval_text EXCEPT ![s] = Unbound]
    /\ eval_json' = [eval_json EXCEPT ![s] = NoJson]
    /\ save_payload' = [save_payload EXCEPT ![s] = NoPayload]

\* the event e appended to the log of session s
Logged(s, e) == [hlog EXCEPT ![s] = Append(@, e)]

\* q_prompt of ask_one_question
q_prompt(s) ==
    "As an interviewer for the role '" \o Role
        \o "', ask exactly one clear, conversational, open-ended question that targets these skills: "
        \o (IF skills[s] # <<>> THEN Join(skills[s]) ELSE "general experience")
        \o ". Keep the question natural and request a specific example or past experience."

\* ------------------------------------------------------------ on_enter

\* on_enter up to its await: the stage is set, the greeting is issued
\* (the host calls it once, on the fresh agent)
on_enter(s) ==
    /\ pc[s] = "ready"
    /\ stage[s] = "idle"
    /\ stage' = [stage EXCEPT ![s] = "awaiting_consent"]
    /\ hlog' = [hlog EXCEPT ![s] = <<"speak:greet">>]
    /\ exc' = [exc EXCEPT ![s] = None]
    /\ pre' = [pre EXCEPT ![s] = Snapshot(s)]
    /\ pc' = [pc EXCEPT ![s] = "reply"]
    /\ UNCHANGED <<config, server, classifier, question_count, last_question_text, locals, counters, tally>>

\* session.generate_reply returns to a callback that then returns at once
\* (the greeting, the yes/no re-prompt, the follow-up request)
generate_reply_returns(s) ==
    /\ pc[s] = "reply"
    /\ Returns(s)
    /\ UNCHANGED <<config, server, classifier, question_count, stage, last_question_text,
                   hlog, exc, pre, counters, tally>>

\* ---------------------------------------------------- ask_one_question

\* ask_one_question with question_count kept on the class, not the instance
ask_one_question_on_class(s) ==
    /\ pc[s] \in {"consent_sleep", "next_sleep"}
    /\ question_count' = [o \in DOMAIN question_count |-> question_count[o] + 1]
    /\ hlog' = Logged(s, "speak:question")
    /\ pc' = [pc EXCEPT ![s] = "ask_reply"]
    /\ evaluations' = [evaluations EXCEPT ![s] = 0]
    /\ persists' = [persists EXCEPT ![s] = 0]
    /\ UNCHANGED <<config, server, classifier, stage, last_question_text, locals, exc, pre, counters,
                   last_persisted, consent>>

\* ask_one_question up to its await, entered when the sleep before it ends
ask_one_question(s) ==
    /\ pc[s] \in {"consent_sleep", "next_sleep"}
    /\ question_count' = [question_count EXCEPT ![s] = @ + 1]
    /\ hlog' = Logged(s, "speak:question")
    /\ pc' = [pc EXCEPT ![s] = "ask_reply"]
    /\ evaluations' = [evaluations EXCEPT ![s] = 0]
    /\ persists' = [persists EXCEPT ![s] = 0]
    /\ UNCHANGED <<config, server, classifier, stage, last_question_text, locals, exc, pre, counters,
                   last_persisted, consent>>

\* ask_one_question_returns without the line that saves the prompt
ask_one_question_returns_unsaved(s) ==
    /\ pc[s] = "ask_reply"
    /\ stage' = [stage EXCEPT ![s] = "asking"]
    /\ Returns(s)
    /\ UNCHANGED <<config, server, classifier, question_count, last_question_text, hlog, exc, pre,
                   counters, tally>>

\* ask_one_question after its await; both callers return right after it
ask_one_question_returns(s) ==
    /\ pc[s] = "ask_reply"
    /\ last_question_text' = [last_question_text EXCEPT ![s] = q_prompt(s)]
    /\ stage' = [stage EXCEPT ![s] = "asking"]
    /\ Returns(s)
    /\ UNCHANGED <<config, server, classifier, question_count, hlog, exc, pre, counters, tally>>

\* ----------------------------------------------- on_user_turn_completed

\* ConsentGiven with any reply at all taken for a yes
ConsentGivenByAnyReply(text) == text # <<>>

\* the consent test of the awaiting_consent stage
ConsentGiven(text) == _is_affirmative(text)

\* FollowUpDue with the budget test off by one
FollowUpDueOffByOne(s, text) ==
    _needs_example(text) /\ question_count[s] + 1 < max_questions

\* MainFlow that lets a finished session through as well
MainFlowNotClosed(s) == stage[s] \in {"asking", "finished"}

\* the stage test of the main Q/A flow
MainFlow(s) == stage[s] = "asking"

\* the follow-up test of the asking stage
FollowUpDue(s, text) ==
    _needs_example(text) /\ question_count[s] < max_questions

\* BudgetSpent with > for >=: one question too many
BudgetSpentLate(s) == question_count[s] > max_questions

\* BudgetSpent one question early
BudgetSpentEarly(s) == question_count[s] + 1 >= max_questions

\* the budget test after the persistence attempt
BudgetSpent(s) == question_count[s] >= max_questions

\* step 4 of on_user_turn_completed, up to its next await: the closing
\* statement is issued, or the pause before the next question begins;
\* log is the callback's log so far
decide_next(s, log) ==
    IF BudgetSpent(s)
    THEN /\ hlog' = [hlog EXCEPT ![s] = Append(log, "speak:closing")]
         /\ closings' = [closings EXCEPT ![s] = @ + 1]
         /\ pc' = [pc EXCEPT ![s] = "closing_reply"]
    ELSE /\ hlog' = [hlog EXCEPT ![s] = log]
         /\ closings' = closings
         /\ pc' = [pc EXCEPT ![s] = "next_sleep"]

\* on_user_turn_completed from its entry to its first await (or its return)
on_user_turn_completed(s, new_message) ==
    /\ pc[s] = "ready"
    /\ exc' = [exc EXCEPT ![s] = None]
    /\ pre' = [pre EXCEPT ![s] = Snapshot(s)]
    /\ user_text' = [user_text EXCEPT ![s] = TextOf(new_message)]
    /\ CASE stage[s] = "awaiting_consent" ->
              /\ IF ConsentGiven(TextOf(new_message))
                 THEN /\ stage' = [stage EXCEPT ![s] = "asking"]
                      /\ hlog' = [hlog EXCEPT ![s] = <<>>]
                      /\ pc' = [pc EXCEPT ![s] = "consent_sleep"]
                 ELSE /\ stage' = stage
                      /\ hlog' = [hlog EXCEPT ![s] = <<"speak:reprompt">>]
                      /\ pc' = [pc EXCEPT ![s] = "reply"]
              /\ accepted' = accepted
         [] MainFlow(s) ->
              /\ IF FollowUpDue(s, TextOf(new_message))
                 THEN /\ hlog' = [hlog EXCEPT ![s] =
                                    <<"decide:follow_up", "speak:follow_up">>]
                      /\ pc' = [pc EXCEPT ![s] = "reply"]
                      /\ accepted' = accepted
                 ELSE /\ hlog' = [hlog EXCEPT ![s] = <<"decide:accept", "eval:call">>]
                      /\ pc' = [pc EXCEPT ![s] = "eval_call"]
                      /\ accepted' = [accepted EXCEPT ![s] = @ + 1]
              /\ stage' = stage
         [] OTHER ->
              \* other stages: ignore
              /\ hlog' = [hlog EXCEPT ![s] = <<>>]
              /\ UNCHANGED <<stage, pc, accepted>>
    /\ evaluations' = [evaluations EXCEPT ![s] = @ + (accepted'[s] - accepted[s])]
    /\ consent' = [consent EXCEPT ![s] =
                      @ \/ (stage[s] = "awaiting_consent"
                              /\ _is_affirmative(TextOf(new_message)))]
    /\ UNCHANGED <<config, server, classifier, question_count, last_question_text, eval_text,
                   eval_json, save_payload, closings, aborted, persists,
                   last_persisted>>

\* call_llm_for_eval raises (timeout, connection error): the except branch
\* reads eval_text, which line 168 never assigned, so UnboundLocalError
\* leaves on_user_turn_completed
eval_raises(s) ==
    /\ pc[s] = "eval_call"
    /\ Truthy(LLM_EVAL_URL)
    /\ eval_text[s] = Unbound
    /\ aborted[s] < MaxAborted
    /\ hlog' = Logged(s, "eval:raise")
    /\ exc' = [exc EXCEPT ![s] = "UnboundLocalError"]
    /\ aborted' = [aborted EXCEPT ![s] = @ + 1]
    /\ Returns(s)
    /\ UNCHANGED <<config, server, classifier, question_count, stage, last_question_text,
                   pre, accepted, closings, tally>>

\* what call_llm_for_eval returns: the demo fallback without LLM_EVAL_URL,
\* else the body of the proxy's response
call_llm_for_eval(text) ==
    IF ~Truthy(LLM_EVAL_URL) THEN DemoFallback ELSE text

\* eval_json after the try statement, from the text the call returned
Evaluated(text) ==
    IF json_loads(text).ok THEN json_loads(text) ELSE FallbackJson(text)

\* the save_payload built for the sink
Payload(s, json) ==
    [room |-> s,
     question_id |-> question_count[s],
     question_text |-> last_question_text[s],
     answer_text |-> user_text[s],
     scores |-> Get(json.scores, "{}"),
     rationale |-> Get(json.rationale, "")]

\* the POST of the payload of the current question is issued
Posted(s) ==
    /\ persists' = [persists EXCEPT ![s] = @ + 1]
    /\ last_persisted' = [last_persisted EXCEPT ![s] = question_count[s]]

\* eval_returns with the POST started and not awaited: step 4 runs at once
eval_returns_without_await(s, text) ==
    LET t == call_llm_for_eval(text)
        json == Evaluated(t)
        log == Append(hlog[s], "eval:return")
    IN  /\ pc[s] = "eval_call"
        /\ IF Truthy(backend_host[s])
           THEN IF json.type # "dict"
                THEN /\ aborted[s] < MaxAborted
                     /\ hlog' = [hlog EXCEPT ![s] = log]
                     /\ exc' = [exc EXCEPT ![s] = "AttributeError"]
                     /\ aborted' = [aborted EXCEPT ![s] = @ + 1]
                     /\ Returns(s)
                     /\ UNCHANGED <<closings, persists, last_persisted>>
                ELSE /\ eval_text' = [eval_text EXCEPT ![s] = t]
                     /\ eval_json' = [eval_json EXCEPT ![s] = json]
                     /\ save_payload' = [save_payload EXCEPT ![s] = Payload(s, json)]
                     /\ decide_next(s, Append(log, "sink:call"))
                     /\ Posted(s)
                     /\ UNCHANGED <<user_text, exc, aborted>>
           ELSE /\ eval_text' = [eval_text EXCEPT ![s] = t]
                /\ eval_json' = [eval_json EXCEPT ![s] = json]
                /\ decide_next(s, Append(log, "sink:skip"))
                /\ UNCHANGED <<user_text, save_payload, exc, aborted, persists,
                               last_persisted>>
        /\ UNCHANGED <<config, server, classifier, question_count, stage, last_question_text,
                       pre, accepted, evaluations, consent>>

\* call_llm_for_eval returns: the text is parsed, then the payload is built
\* and the POST issued (backend_host set), or step 4 runs at once
eval_returns(s, text) ==
    LET t == call_llm_for_eval(text)
        json == Evaluated(t)
        log == Append(hlog[s], "eval:return")
    IN  /\ pc[s] = "eval_call"
        /\ IF Truthy(backend_host[s])
           THEN IF json.type # "dict"
                THEN \* eval_json.get on a list: AttributeError leaves the callback
                     /\ aborted[s] < MaxAborted
                     /\ hlog' = [hlog EXCEPT ![s] = log]
                     /\ exc' = [exc EXCEPT ![s] = "AttributeError"]
                     /\ aborted' = [aborted EXCEPT ![s] = @ + 1]
                     /\ Returns(s)
                     /\ UNCHANGED <<closings, persists, last_persisted>>
                ELSE /\ eval_text' = [eval_text EXCEPT ![s] = t]
                     /\ eval_json' = [eval_json EXCEPT ![s] = json]
                     /\ save_payload' = [save_payload EXCEPT ![s] = Payload(s, json)]
                     /\ hlog' = [hlog EXCEPT ![s] = Append(log, "sink:call")]
                     /\ pc' = [pc EXCEPT ![s] = "sink_call"]
                     /\ Posted(s)
                     /\ UNCHANGED <<user_text, exc, aborted, closings>>
           ELSE /\ eval_text' = [eval_text EXCEPT ![s] = t]
                /\ eval_json' = [eval_json EXCEPT ![s] = json]
                /\ decide_next(s, Append(log, "sink:skip"))
                /\ UNCHANGED <<user_text, save_payload, exc, aborted, persists,
                               last_persisted>>
        /\ UNCHANGED <<config, server, classifier, question_count, stage, last_question_text,
                       pre, accepted, evaluations, consent>>

\* sink_returns without the try/except around the POST
sink_returns_unguarded(s, outcome) ==
    /\ pc[s] = "sink_call"
    /\ IF outcome \in {"network_error", "timeout"}
       THEN /\ hlog' = Logged(s, "sink:" \o outcome)
            /\ exc' = [exc EXCEPT ![s] = "ClientError"]
            /\ Returns(s)
            /\ UNCHANGED closings
       ELSE /\ decide_next(s, Append(hlog[s], "sink:" \o outcome))
            /\ UNCHANGED <<locals, exc>>
    /\ UNCHANGED <<config, server, classifier, question_count, stage, last_question_text,
                   pre, accepted, aborted, tally>>

\* the POST to /save_evaluation ends; an exception is logged and swallowed,
\* a non-2xx status raises nothing; step 4 follows
sink_returns(s, outcome) ==
    /\ pc[s] = "sink_call"
    /\ decide_next(s, Append(hlog[s], "sink:" \o outcome))
    /\ UNCHANGED <<config, server, classifier, question_count, stage, last_question_text, locals,
                   exc, pre, accepted, aborted, tally>>

\* the closing statement has been spoken: finished, then the grace sleep
closing_reply_returns(s) ==
    /\ pc[s] = "closing_reply"
    /\ stage' = [stage EXCEPT ![s] = "finished"]
    /\ pc' = [pc EXCEPT ![s] = "close_sleep"]
    /\ UNCHANGED <<config, server, classifier, question_count, last_question_text, locals, hlog,
                   exc, pre, counters, tally>>

\* the grace sleep ends: session.close() is called
close_session(s) ==
    /\ pc[s] = "close_sleep"
    /\ hlog' = Logged(s, "close:call")
    /\ pc' = [pc EXCEPT ![s] = "closing"]
    /\ UNCHANGED <<config, server, classifier, question_count, stage, last_question_text, locals,
                   exc, pre, counters, tally>>

\* close_returns without the return that follows: the next question is asked
close_returns_falls_through(s, raised) ==
    /\ pc[s] = "closing"
    /\ hlog' = Logged(s, IF raised THEN "close:raised" ELSE "close:ok")
    /\ pc' = [pc EXCEPT ![s] = "next_sleep"]
    /\ UNCHANGED <<config, server, classifier, question_count, stage, last_question_text, locals,
                   exc, pre, counters, tally>>

\* session.close() returns or raises; the exception is passed over
close_returns(s, raised) ==
    /\ pc[s] = "closing"
    /\ hlog' = Logged(s, IF raised THEN "close:raised" ELSE "close:ok")
    /\ Returns(s)
    /\ UNCHANGED <<config, server, classifier, question_count, stage, last_question_text,
                   exc, pre, counters, tally>>

\* ------------------------------------------------------- specification

Next ==
    \E s \in Sessions :
        \/ on_enter(s)
        \/ generate_reply_returns(s)
        \/ \E new_message \in Messages : on_user_turn_completed(s, new_message)
        \/ ask_one_question(s)
        \/ ask_one_question_returns(s)
        \/ eval_raises(s)
        \/ \E text \in OracleTexts : eval_returns(s, text)
        \/ \E outcome \in SinkOutcomes : sink_returns(s, outcome)
        \/ closing_reply_returns(s)
        \/ close_session(s)
        \/ \E raised \in BOOLEAN : close_returns(s, raised)

Spec == Init /\ [][Next]_vars

\* a callback of session s, or the call of on_enter by the host, takes its
\* next step: an awaited call returns and the code after it runs
Continues(s) ==
    \/ on_enter(s)
    \/ generate_reply_returns(s)
    \/ ask_one_question(s)
    \/ ask_one_question_returns(s)
    \/ eval_raises(s)
    \/ \E text \in OracleTexts : eval_returns(s, text)
    \/ \E outcome \in SinkOutcomes : sink_returns(s, outcome)
    \/ closing_reply_returns(s)
    \/ close_session(s)
    \/ \E raised \in BOOLEAN : close_returns(s, raised)

\* the candidate of session s says something
Utters(s) == \E new_message \in Messages : on_user_turn_completed(s, new_message)

\* the sessions under a scheduler that lets every started callback run to
\* its end, with candidates who keep talking
FairSpec ==
    /\ Spec
    /\ \A s \in Sessions : WF_vars(Continues(s)) /\ WF_vars(Utters(s))

\* ------------------------------------------- two sessions side by side

\* two rooms, each with its own InterviewAgent
TwoSessions == {"interview-1", "interview-2"}

\* what the two candidates say: consent, and an answer long enough to be
\* accepted
TwoMessages ==
    {[has_text |-> TRUE, text_content |-> u] :
        u \in {<<"y", "e", "s">>, SayBroken \o Filler(MaxFiller)}}

\* what the evaluation proxy answers the two sessions
TwoOracleTexts == {GoodJson}

\* how the POSTs of the two sessions end
TwoSinkOutcomes == {"ok", "timeout"}

\* the jobs start with their own metadata; only the first names a backend
InitTwo ==
    /\ LLM_EVAL_URL = "http://llm-proxy/eval"
    /\ skills = [s \in TwoSessions |->
                    IF s = "interview-1" THEN <<"React", "Testing">> ELSE <<>>]
    /\ backend_host = [s \in TwoSessions |->
                          IF s = "interview-1" THEN "http://localhost:8000" ELSE None]
    /\ Constructed(TwoSessions)
    /\ server_loaded
    /\ classifier_idle

\* the event loop runs one step of one of the two sessions
NextTwo ==
    \E s \in TwoSessions :
        \/ on_enter(s)
        \/ generate_reply_returns(s)
        \/ \E new_message \in TwoMessages : on_user_turn_completed(s, new_message)
        \/ ask_one_question(s)
        \/ ask_one_question_returns(s)
        \/ eval_raises(s)
        \/ \E text \in TwoOracleTexts : eval_returns(s, text)
        \/ \E outcome \in TwoSinkOutcomes : sink_returns(s, outcome)
        \/ closing_reply_returns(s)
        \/ close_session(s)
        \/ \E raised \in BOOLEAN : close_returns(s, raised)

SpecTwo == InitTwo /\ [][NextTwo]_vars

\* everything session s owns: the attributes of its agent, the frame of its
\* callback, and what is recorded about it
Fields(s) ==
    <<skills[s], backend_host[s], question_count[s], stage[s],
      last_question_text[s], pc[s], user_text[s], eval_text[s], eval_json[s],
      save_payload[s], hlog[s], exc[s], pre[s], accepted[s], closings[s],
      aborted[s], evaluations[s], persists[s], last_persisted[s], consent[s]>>

\* ------------------------------------------------------------ server.py

\* everything the agents own, which no request to the server touches
agents ==
    <<config, question_count, stage, last_question_text, pc, locals, hlog, exc,
      pre, counters, tally>>

\* most entries the store is filled with
MaxSaves == 3

\* a key a request body carries beyond the fields of Evaluation
NoExtra == "<no extra key>"

\* the JSON bodies POSTed to /save_evaluation: by the agents of two rooms,
\* or by any other client (scores missing or a list, no rationale, an
\* undeclared key)
Bodies ==
    [room : TwoSessions,
     question_id : {1, 2},
     scores : {Absent, "[]", "{}"},
     rationale : {Absent, "short note"},
     debug : {NoExtra, "on"}]

\* pydantic's check of a body against Evaluation: `scores: dict` is the one
\* required field, the Optional ones may be missing
Valid(body) == body.scores \notin {Absent, "[]"}

\* Evaluation(**body).dict(): the declared fields, a missing Optional one as
\* None, undeclared keys dropped
Entry(body) ==
    [room |-> body.room,
     question_id |-> body.question_id,
     scores |-> body.scores,
     rationale |-> IF body.rationale = Absent THEN None ELSE body.rationale]

\* a store that keeps one entry per room and question: an entry with the
\* key of an earlier one takes its place
Upserted(entry) ==
    LET same(e) == e.room = entry.room /\ e.question_id = entry.question_id
    IN  IF \E i \in DOMAIN EVALUATIONS : same(EVALUATIONS[i])
        THEN [i \in DOMAIN EVALUATIONS |->
                IF same(EVALUATIONS[i]) THEN entry ELSE EVALUATIONS[i]]
        ELSE Append(EVALUATIONS, entry)

\* EVALUATIONS.append(entry)
Appended(entry) == Append(EVALUATIONS, entry)

\* POST /save_evaluation with a body Evaluation accepts
save_evaluation(body) ==
    /\ Valid(body)
    /\ Len(EVALUATIONS) < MaxSaves
    /\ EVALUATIONS' = Appended(Entry(body))
    /\ saved' = Append(saved, Entry(body))
    /\ response' = [status |-> 200, body |-> <<Entry(body)>>]
    /\ UNCHANGED <<agents, classifier>>

\* POST /save_evaluation with a body Evaluation rejects: FastAPI answers 422
\* and save_evaluation is not called
save_evaluation_rejected(body) ==
    /\ ~Valid(body)
    /\ response' = [status |-> 422, body |-> <<>>]
    /\ UNCHANGED <<agents, classifier, EVALUATIONS, saved>>

\* GET /evaluations
get_evaluations ==
    /\ response' = [status |-> 200, body |-> EVALUATIONS]
    /\ UNCHANGED <<agents, classifier, EVALUATIONS, saved>>

\* the server alone: no interview is running
InitServer ==
    /\ LLM_EVAL_URL = None
    /\ skills = [s \in Sessions |-> <<>>]
    /\ backend_host = [s \in Sessions |-> None]
    /\ Constructed(Sessions)
    /\ server_loaded
    /\ classifier_idle

NextServer ==
    \/ \E body \in Bodies : save_evaluation(body)
    \/ \E body \in Bodies : save_evaluation_rejected(body)
    \/ get_evaluations

ServerSpec == InitServer /\ [][NextServer]_vars

\* the sequence p is the beginning of the sequence q
IsPrefix(p, q) == Len(p) <= Len(q) /\ SubSeq(q, 1, Len(p)) = p

\* ------------------------------------------------ _needs_example alone

\* filler words set apart by more than one blank, a tab among them
RECURSIVE WideFiller(_)
WideFiller(n) ==
    IF n = 0 THEN <<>> ELSE <<" ", "\t", "d", "i", "d">> \o WideFiller(n - 1)

\* how the texts handed to _needs_example begin: the sample phrases, blanks
\* only, and the hedging phrases in capitals, at a line break, behind
\* another word, or cut in two by a tab
Openers ==
    Phrases \cup
    { <<" ", "\t", " ">>,
      <<"I", " ", "K", "N", "O", "W", " ", "i", "t">>,
      <<"w", "e", "l", "l", "\n", "I", "'", "m", " ", "F", "a", "m", "i", "l", "i", "a", "r">>,
      <<"s", "o", " ", "i", " ", "l", "e", "a", "r", "n", "e", "d">>,
      <<"i", "\t", "k", "n", "o", "w">>,
      <<"I", " ", "u", "s", "e", "d", " ", " ", "t", "o">> }

\* the texts _needs_example is called with: an opener and 0..MaxFiller filler
\* words
Texts ==
    {p \o Filler(n) : p \in Openers, n \in 0..MaxFiller}
        \cup {p \o WideFiller(n) : p \in Openers, n \in 0..MaxFiller}

\* str(b) of a Python bool
Str(b) == IF b THEN "True" ELSE "False"

\* a caller is about to call _needs_example on some text
InitClassifier ==
    /\ LLM_EVAL_URL = None
    /\ skills = [s \in Sessions |-> <<>>]
    /\ backend_host = [s \in Sessions |-> None]
    /\ Constructed(Sessions)
    /\ server_loaded
    /\ utterance \in Texts
    /\ needs_example = Unbound

\* the call _needs_example(utterance) returns
needs_example_returns ==
    /\ needs_example = Unbound
    /\ needs_example' = Str(_needs_example(utterance))
    /\ UNCHANGED <<agents, server, utterance>>

\* the caller comes back with another text
needs_example_called(t) ==
    /\ needs_example # Unbound
    /\ utterance' = t
    /\ needs_example' = Unbound
    /\ UNCHANGED <<agents, server>>

NextClassifier ==
    \/ needs_example_returns
    \/ \E t \in Texts : needs_example_called(t)

ClassifierSpec == InitClassifier /\ [][NextClassifier]_vars

\* the place of the first separator in t, Len(t) + 1 if there is none
FirstBlank(t) ==
    IF \E i \in 1..Len(t) : t[i] \in Whitespace
    THEN CHOOSE i \in 1..Len(t) :
            /\ t[i] \in Whitespace
            /\ \A j \in 1..(i - 1) : t[j] \notin Whitespace
    ELSE Len(t) + 1

\* the whitespace-separated words of t, in order
RECURSIVE Words(_)
Words(t) ==
    IF t = <<>> THEN <<>>
    ELSE IF Head(t) \in Whitespace THEN Words(Tail(t))
    ELSE <<SubSeq(t, 1, FirstBlank(t) - 1)>> \o Words(SubSeq(t, FirstBlank(t), Len(t)))

\* the phrase p stands somewhere in t
Occurs(p, t) ==
    \E i \in 1..Len(t) :
        i + Len(p) - 1 <= Len(t) /\ SubSeq(t, i, i + Len(p) - 1) = p

\* the values the variables take
TypeOK ==
    /\ LLM_EVAL_URL \in EvalUrls
    /\ \A s \in Sessions :
        /\ stage[s] \in {Stages[i] : i \in 1..4}
        /\ question_count[s] \in 0..max_questions + 1
        /\ pc[s] \in {"ready", "reply", "consent_sleep", "next_sleep", "ask_reply",
                      "eval_call", "sink_call", "closing_reply", "close_sleep",
                      "closing"}
        /\ exc[s] \in {None, "UnboundLocalError", "AttributeError"}
        /\ aborted[s] \in 0..MaxAborted
        /\ evaluations[s] \in 0..(MaxAborted + 1)
        /\ persists[s] \in 0..1
        /\ last_persisted[s] \in 0..max_questions
        /\ consent[s] \in BOOLEAN
    /\ Len(EVALUATIONS) <= MaxSaves
    /\ response.status \in {0, 200, 422}
    /\ needs_example \in {Unbound, "True", "False"}

\* ------------------------------------------------------ reading the log

\* the event e is in the log of the most recent callback of session s
InLog(s, e) == \E i \in DOMAIN hlog[s] : hlog[s][i] = e

\* how often an event of the set E is in that log
Count(s, E) == Cardinality({i \in DOMAIN hlog[s] : hlog[s][i] \in E})

\* the events that end a persistence attempt: an outcome of the POST, or the
\* skip when no backend_host is set
SinkEnds == {"sink:" \o o : o \in SinkOutcomes} \cup {"sink:skip"}

\* the spoken turns and the close that may follow an accepted answer
NextTurns == {"speak:question", "speak:closing", "close:call"}

\* the most recent callback of s was on_user_turn_completed in stage st
Handled(s, st) == pre[s].stage = st /\ st # "idle"

\* the rank of a stage in idle -> awaiting_consent -> asking -> finished
Rank(st) == CHOOSE i \in 1..4 : Stages[i] = st

\* ------------------------------------------------------------- claims

\* C1. Question budget: once exactly max_questions answers have been accepted
\* (not sent to a follow-up) and the callback of the last one has ended, the
\* stage is "finished"; and in stage "finished" no ask_one_question runs.
C1_QuestionBudget ==
    \A s \in Sessions :
        /\ (accepted[s] = max_questions /\ pc[s] = "ready") => stage[s] = "finished"
        /\ stage[s] = "finished" => pc[s] \notin {"consent_sleep", "next_sleep", "ask_reply"}

\* C2. Scenario D: when the evaluator call of an accepted answer fails in
\* transport, no exception leaves on_user_turn_completed, the sink is still
\* attempted (with backend_host set), and the callback ends with the next
\* question asked or the interview closed.
C2_EvaluatorFailureDegrades ==
    \A s \in Sessions :
        (InLog(s, "eval:raise") /\ pc[s] = "ready") =>
            /\ exc[s] = None
            /\ Truthy(backend_host[s]) => InLog(s, "sink:call")
            /\ IF pre[s].question_count < max_questions
               THEN question_count[s] = pre[s].question_count + 1 /\ stage[s] = "asking"
               ELSE stage[s] = "finished"

\* C3. question_count stays within 0..max_questions in every state, never
\* decreases, and changes only by +1, in the step that enters ask_one_question.
C3_QuestionCountBounded ==
    /\ [](\A s \in Sessions : question_count[s] \in 0..max_questions)
    /\ [][\A s \in Sessions :
            question_count'[s] # question_count[s] =>
                /\ question_count'[s] = question_count[s] + 1
                /\ pc[s] \in {"consent_sleep", "next_sleep"}
                /\ pc'[s] = "ask_reply"]_vars

\* the budget is used up: the last question has been asked and answered
C3_Witness ==
    \E s \in Sessions : question_count[s] = max_questions /\ stage[s] = "finished"

\* C4. Ordering: within the callback of an accepted answer the follow-up
\* decision comes before the evaluator call, the evaluator returns before the
\* sink call begins, and the persistence attempt has ended (an outcome of the
\* POST, or the skip) before the next question, the closing statement or the
\* close is issued.
C4_Ordering ==
    \A s \in Sessions : \A i \in DOMAIN hlog[s] :
        LET e == hlog[s][i]
            Earlier(E) == \E j \in 1..(i - 1) : hlog[s][j] \in E
        IN  /\ e = "eval:call" => Earlier({"decide:accept"})
            /\ e \in {"eval:return", "eval:raise"} => Earlier({"eval:call"})
            /\ e = "sink:call" => Earlier({"eval:return"})
            /\ e \in SinkEnds \ {"sink:skip"} => Earlier({"sink:call"})
            /\ e = "sink:skip" => Earlier({"eval:return"})
            /\ (e \in NextTurns /\ Handled(s, "asking")) => Earlier(SinkEnds)

\* an accepted answer whose POST timed out, followed by the next question
C4_Witness ==
    \E s \in Sessions :
        hlog[s] = <<"decide:accept", "eval:call", "eval:return", "sink:call",
                    "sink:timeout", "speak:question">>

\* C5. Consent gate: an utterance handled in stage awaiting_consent moves the
\* stage to "asking" only if it is affirmative, and then exactly one question is
\* asked and question_count becomes 1; any other utterance (the empty text and
\* "no" among them) leaves the stage and question_count 0, speaks the yes/no
\* re-prompt, and nothing is evaluated or persisted either way.
C5_ConsentGate ==
    \A s \in Sessions :
        Handled(s, "awaiting_consent") =>
            /\ \A i \in DOMAIN hlog[s] : hlog[s][i] \in {"speak:reprompt", "speak:question"}
            /\ exc[s] = None
            /\ user_text[s] \in {<<>>, SayNo} => stage[s] = "awaiting_consent"
            /\ IF _is_affirmative(user_text[s])
               THEN /\ stage[s] = "asking"
                    /\ question_count[s] = Count(s, {"speak:question"})
                    /\ pc[s] = "ready" =>
                          hlog[s] = <<"speak:question">> /\ question_count[s] = 1
               ELSE /\ stage[s] = "awaiting_consent"
                    /\ question_count[s] = 0
                    /\ hlog[s] = <<"speak:reprompt">>

\* the candidate said "no" and the callback has ended
C5_Witness ==
    \E s \in Sessions :
        /\ Handled(s, "awaiting_consent")
        /\ user_text[s] = SayNo
        /\ pc[s] = "ready"
        /\ hlog[s] = <<"speak:reprompt">>

\* C6. Follow-up round: an utterance that needs an example, handled in stage
\* asking with question_count < max_questions, makes the callback speak the
\* follow-up request and nothing else: stage, question_count and
\* last_question_text are as it found them, no evaluator or sink call is made.
C6_FollowUpRound ==
    \A s \in Sessions :
        /\ (Handled(s, "asking") /\ pre[s].question_count < max_questions
                /\ (_needs_example(user_text[s]) \/ user_text[s] = SayUsedTo)) =>
              /\ hlog[s] = <<"decide:follow_up", "speak:follow_up">>
              /\ pc[s] \in {"reply", "ready"}
              /\ exc[s] = None
        /\ InLog(s, "decide:follow_up") =>
              /\ hlog[s] = <<"decide:follow_up", "speak:follow_up">>
              /\ stage[s] = "asking"
              /\ stage[s] = pre[s].stage
              /\ question_count[s] = pre[s].question_count
              /\ last_question_text[s] = pre[s].last_question_text

\* Scenario B: "I used to do that" answered with the follow-up request
C6_Witness ==
    \E s \in Sessions :
        /\ Handled(s, "asking")
        /\ user_text[s] = SayUsedTo
        /\ pc[s] = "ready"
        /\ hlog[s] = <<"decide:follow_up", "speak:follow_up">>

\* C7. Scenario C: an utterance that needs no example, handled in stage asking
\* with question_count = k < max_questions, has the evaluator called exactly
\* once, the sink called exactly once (with backend_host set) carrying the
\* scores and rationale of that evaluation and question_id = k, and then one
\* ask_one_question, so that question_count is k + 1 and the stage "asking".
C7_AcceptedAnswerAdvances ==
    \A s \in Sessions :
        (Handled(s, "asking") /\ pre[s].question_count < max_questions
                /\ ~_needs_example(user_text[s])) =>
            /\ Count(s, {"eval:call"}) = 1
            /\ pc[s] = "sink_call" =>
                  /\ save_payload[s].question_id = pre[s].question_count
                  /\ save_payload[s].scores = Get(Evaluated(eval_text[s]).scores, "{}")
                  /\ save_payload[s].rationale = Get(Evaluated(eval_text[s]).rationale, "")
            /\ pc[s] = "ready" =>
                  /\ Truthy(backend_host[s]) => Count(s, {"sink:call"}) = 1
                  /\ Count(s, {"speak:question"}) = 1
                  /\ question_count[s] = pre[s].question_count + 1
                  /\ stage[s] = "asking"

\* C8. Closing: the closing statement is spoken at most once in a session and
\* once when the stage is "finished"; the stage becomes "finished" only in the
\* callback of the answer to question max_questions, after that answer was
\* evaluated and its persistence attempt ended; session.close() is called only
\* in stage "finished", and its failure leaves the stage "finished".
C8_Closing ==
    /\ [](\A s \in Sessions :
            /\ closings[s] <= 1
            /\ stage[s] = "finished" => closings[s] = 1
            /\ closings[s] = 1 => (stage[s] = "finished" \/ pc[s] = "closing_reply")
            /\ (InLog(s, "close:call") \/ pc[s] \in {"close_sleep", "closing"}) =>
                  stage[s] = "finished"
            /\ InLog(s, "close:raised") => (stage[s] = "finished" /\ exc[s] = None))
    /\ [][\A s \in Sessions :
            (stage'[s] = "finished" /\ stage[s] # "finished") =>
                /\ pre[s].question_count = max_questions
                /\ question_count[s] = max_questions
                /\ \E i, j, k \in DOMAIN hlog[s] :
                      /\ i < j /\ j < k
                      /\ hlog[s][i] = "eval:return"
                      /\ hlog[s][j] \in SinkEnds
                      /\ hlog[s][k] = "speak:closing"]_vars

\* the interview was closed and session.close() raised
C8_Witness ==
    \E s \in Sessions :
        /\ stage[s] = "finished"
        /\ pc[s] = "ready"
        /\ InLog(s, "close:raised")

\* C9. Sink failure is swallowed: once the persistence attempt of an accepted
\* answer has ended, whatever its end (2xx, non-2xx, network error, timeout,
\* or the skip without backend_host), no exception leaves the callback, the
\* sink was called at most once, and what follows depends on the budget alone:
\* the next question with question_count + 1 in stage "asking", or the closing
\* statement and stage "finished".
C9_SinkFailureSwallowed ==
    \A s \in Sessions :
        (\E i \in DOMAIN hlog[s] : hlog[s][i] \in SinkEnds) =>
            LET k == CHOOSE i \in DOMAIN hlog[s] : hlog[s][i] \in SinkEnds
                rest == SubSeq(hlog[s], k + 1, Len(hlog[s]))
            IN  /\ exc[s] = None
                /\ Count(s, SinkEnds) = 1
                /\ Count(s, {"sink:call"}) = (IF hlog[s][k] = "sink:skip" THEN 0 ELSE 1)
                /\ IF pre[s].question_count >= max_questions
                   THEN /\ question_count[s] = pre[s].question_count
                        /\ rest # <<>>
                        /\ rest[1] = "speak:closing"
                        /\ pc[s] = "ready" =>
                              /\ stage[s] = "finished"
                              /\ SubSeq(rest, 1, 2) = <<"speak:closing", "close:call">>
                   ELSE /\ pc[s] = "next_sleep" => rest = <<>>
                        /\ pc[s] # "next_sleep" => rest = <<"speak:question">>
                        /\ pc[s] = "ready" =>
                              /\ stage[s] = "asking"
                              /\ question_count[s] = pre[s].question_count + 1

\* the POST failed with a network error and the next question was asked
C9_Witness ==
    \E s \in Sessions :
        /\ InLog(s, "sink:network_error")
        /\ pc[s] = "ready"
        /\ stage[s] = "asking"
        /\ question_count[s] = pre[s].question_count + 1

\* C10. The stage never regresses: no step moves a session's stage to an
\* earlier one of idle, awaiting_consent, asking, finished; "finished" stays.
C10_StageNeverRegresses ==
    [][\A s \in Sessions :
          /\ Rank(stage'[s]) >= Rank(stage[s])
          /\ stage[s] = "finished" => stage'[s] = "finished"]_vars

\* an utterance was delivered to a finished session and ignored
C10_Witness ==
    \E s \in Sessions :
        /\ stage[s] = "finished"
        /\ pre[s].stage = "finished"
        /\ pc[s] = "ready"
        /\ hlog[s] = <<>>

\* the data-model invariant of the stage "asking" in session s: at least one
\* question has been spoken, and the interview is neither over nor waiting
\* for consent
AskingIffQuestionSpoken(s) ==
    stage[s] = "asking" <=>
        /\ question_count[s] >= 1
        /\ last_question_text[s] # None
        /\ stage[s] \notin {"finished", "awaiting_consent"}

\* C11 (as claimed). In every reachable state the stage is "asking" if and
\* only if at least one question has been spoken (question_count >= 1 and
\* last_question_text set) and the interview has neither concluded nor is
\* awaiting consent.
C11_AskingInvariantEverywhere ==
    \A s \in Sessions : AskingIffQuestionSpoken(s)

\* C11 (amended). The same, in every state in which no callback of the
\* session is in flight: the consent branch sets the stage to "asking" before
\* the first question is counted, spoken and saved.
C11_AskingInvariantBetweenCallbacks ==
    \A s \in Sessions : pc[s] = "ready" => AskingIffQuestionSpoken(s)

\* between two callbacks, in stage "asking" with the third question spoken
C11_Witness ==
    \E s \in Sessions :
        /\ pc[s] = "ready"
        /\ stage[s] = "asking"
        /\ question_count[s] = 3
        /\ last_question_text[s] = q_prompt(s)

\* C12. Events outside the dialogue are ignored: an utterance handled while
\* the stage is "idle" or "finished" leaves stage, question_count and
\* last_question_text unchanged, and the callback returns at once with an
\* empty log: nothing is spoken, no evaluator or sink call is made, the
\* session is not closed, and nothing is counted as accepted, scored or stored.
C12_IgnoredOutsideDialogue ==
    [][\A s \in Sessions : \A new_message \in Messages :
          (stage[s] \in {"idle", "finished"} /\ on_user_turn_completed(s, new_message)) =>
              /\ Snapshot(s)' = Snapshot(s)
              /\ hlog'[s] = <<>>
              /\ pc'[s] = "ready"
              /\ accepted'[s] = accepted[s]
              /\ closings'[s] = closings[s]
              /\ evaluations'[s] = evaluations[s]
              /\ persists'[s] = persists[s]]_vars

\* an utterance was delivered after the close, and dropped
C12_Witness ==
    \E s \in Sessions :
        /\ stage[s] = "finished"
        /\ closings[s] = 1
        /\ pc[s] = "ready"
        /\ user_text[s] = SayNo
        /\ pre[s] = Snapshot(s)
        /\ hlog[s] = <<>>

\* the callback of session s goes on after the evaluation as step 4 has it:
\* the next question while the budget lasts, else the closing
Advances(s) ==
    /\ exc[s] = None
    /\ pc[s] \in {"sink_call", "next_sleep", "ask_reply", "closing_reply",
                  "close_sleep", "closing"}
    /\ pc[s] = "next_sleep" => pre[s].question_count < max_questions
    /\ pc[s] = "ask_reply" =>
          stage[s] = "asking" /\ question_count[s] = pre[s].question_count + 1
    /\ pc[s] \in {"closing_reply", "close_sleep", "closing"} =>
          pre[s].question_count = max_questions

\* C13. Parse-failure fallback: when the evaluator returned text that is not
\* valid JSON, eval_json has empty scores and the raw text, verbatim, as its
\* rationale, the payload of the sink carries exactly those two values, and
\* the callback advances as after any evaluation; without LLM_EVAL_URL the
\* result is the demo fallback with empty scores, and the callback advances
\* in the same way.
C13_ParseFailureFallback ==
    \A s \in Sessions :
        eval_text[s] # Unbound =>
            /\ ~json_loads(eval_text[s]).ok =>
                  /\ eval_json[s].scores = "{}"
                  /\ eval_json[s].rationale = eval_text[s]
                  /\ Truthy(LLM_EVAL_URL)
                  /\ Truthy(backend_host[s]) =>
                        /\ InLog(s, "sink:call")
                        /\ save_payload[s].scores = "{}"
                        /\ save_payload[s].rationale = eval_text[s]
                        /\ save_payload[s].question_id = pre[s].question_count
                  /\ Advances(s)
            /\ ~Truthy(LLM_EVAL_URL) =>
                  /\ eval_text[s] = DemoFallback
                  /\ eval_json[s].scores = "{}"
                  /\ Advances(s)

\* the evaluator answered in prose: the payload went out with the prose as
\* its rationale, and the next question is being spoken
C13_Witness ==
    \E s \in Sessions :
        /\ eval_text[s] = Prose
        /\ save_payload[s].rationale = Prose
        /\ save_payload[s].scores = "{}"
        /\ InLog(s, "sink:ok")
        /\ pc[s] = "ask_reply"

\* no evaluation proxy is configured: the demo fallback was scored and the
\* interview is being closed
C13_WitnessNoEndpoint ==
    \E s \in Sessions :
        /\ ~Truthy(LLM_EVAL_URL)
        /\ eval_json[s].scores = "{}"
        /\ pc[s] = "closing_reply"

\* C14. The interview is finite: once consent has been given, with candidates
\* who keep delivering utterances and callbacks that run to completion, the
\* session eventually reaches the stage "finished".
C14_EventuallyFinished ==
    \A s \in Sessions : consent[s] ~> stage[s] = "finished"

\* C15. Session independence: with two sessions running concurrently, every
\* step is a step of one session and leaves the stage, question_count and
\* last_question_text of the other, with everything else the other owns,
\* unchanged; the environment variable both read is never written.
C15_SessionsIndependent ==
    [][/\ \E s \in TwoSessions : \A o \in TwoSessions \ {s} :
              /\ Snapshot(o)' = Snapshot(o)
              /\ Fields(o)' = Fields(o)
       /\ LLM_EVAL_URL' = LLM_EVAL_URL]_vars

\* one interview is over while the other still waits for the answer to its
\* second question
C15_Witness ==
    /\ DOMAIN stage = TwoSessions
    /\ stage["interview-1"] = "finished"
    /\ question_count["interview-1"] = max_questions
    /\ stage["interview-2"] = "asking"
    /\ question_count["interview-2"] = 2
    /\ pc["interview-2"] = "ready"

\* C16. Evaluation store: after any sequence of save_evaluation calls, from
\* any rooms, the store holds the entry of every call exactly once, in call
\* order; get_evaluations returns the whole store, unfiltered, in that order;
\* and no request removes, reorders or overwrites an earlier entry.
C16_StoreKeepsInsertionOrder ==
    /\ [](EVALUATIONS = saved)
    /\ [][get_evaluations => response'.body = saved /\ response'.status = 200]_vars
    /\ [][IsPrefix(EVALUATIONS, EVALUATIONS')]_vars

\* the same entry was saved twice, a different one in between, and
\* get_evaluations returned the three in that order
C16_Witness ==
    /\ Len(saved) = 3
    /\ saved[1] = saved[3]
    /\ saved[1] # saved[2]
    /\ response = [status |-> 200, body |-> saved]

\* C17. No follow-up on the final question: an utterance handled in stage
\* "asking" with question_count = max_questions, whatever it says, is taken
\* as final and sent to the evaluator, never answered with the follow-up
\* request; and when its callback has ended the evaluator has returned, the
\* payload has been POSTed (where a backend_host is set), the closing
\* statement has been spoken and the stage is "finished".
C17_FinalQuestionAccepted ==
    \A s \in Sessions :
        (Handled(s, "asking") /\ pre[s].question_count = max_questions) =>
            /\ ~InLog(s, "decide:follow_up")
            /\ ~InLog(s, "speak:follow_up")
            /\ InLog(s, "decide:accept")
            /\ InLog(s, "eval:call")
            /\ pc[s] = "ready" =>
                  /\ InLog(s, "eval:return")
                  /\ Truthy(backend_host[s]) => InLog(s, "sink:call")
                  /\ InLog(s, "speak:closing")
                  /\ stage[s] = "finished"

\* C18. One scored answer per question: for each question the evaluator is
\* called at most once and the payload POSTed at most once; an evaluation
\* uses the last_question_text the ask_one_question of that question saved;
\* a follow-up round calls neither evaluator nor sink; and the question_id
\* values POSTed are 1, 2, ... in this order.
C18_OneScoredAnswerPerQuestion ==
    /\ [](\A s \in Sessions :
            /\ evaluations[s] <= 1
            /\ persists[s] <= 1
            /\ InLog(s, "eval:call") =>
                  /\ pre[s].question_count \in 1..max_questions
                  /\ pre[s].last_question_text = q_prompt(s)
            /\ InLog(s, "decide:follow_up") =>
                  ~InLog(s, "eval:call") /\ ~InLog(s, "sink:call"))
    /\ [][\A s \in Sessions :
            last_persisted'[s] # last_persisted[s] =>
                /\ last_persisted'[s] = last_persisted[s] + 1
                /\ last_persisted'[s] = question_count[s]]_vars

\* C19. Nothing is scored or stored without consent: in every state in which
\* a question of ask_one_question has been spoken, the evaluator called or
\* the sink called, an affirmative utterance has been handled in stage
\* "awaiting_consent" before.
C19_NothingBeforeConsent ==
    \A s \in Sessions :
        \/ consent[s]
        \/ /\ question_count[s] = 0
           /\ last_question_text[s] = None
           /\ accepted[s] = 0
           /\ evaluations[s] = 0
           /\ persists[s] = 0
           /\ last_persisted[s] = 0
           /\ pc[s] \in {"ready", "reply"}
           /\ stage[s] \in {"idle", "awaiting_consent"}
           /\ \A i \in DOMAIN hlog[s] : hlog[s][i] \in {"speak:greet", "speak:reprompt"}

\* consent was given, and the first answer has been sent to the evaluator
\* and on to the sink
C19_Witness ==
    \E s \in Sessions :
        /\ consent[s]
        /\ pre[s].question_count = 1
        /\ InLog(s, "eval:return")
        /\ pc[s] = "sink_call"
        /\ persists[s] = 1

====
